---- MODULE Spec2Model ----
(***************************************************************************)
(* Model of chatbot/conversation.py: the in-memory ConversationManager,    *)
(* its Conversation / Message records, the store operations and the        *)
(* opportunistic clean-up (eviction) pass.                                 *)
(*                                                                         *)
(* Time is counted in seconds.  time.time() and datetime.now() are read    *)
(* from the same wall clock, modelled by the variable now; one handler     *)
(* runs at one instant.                                                    *)
(***************************************************************************)
EXTENDS Integers, Sequences, FiniteSets, TLC

VARIABLES
    conversations,   \* self.conversations: the dict, as the sequence of its values in insertion order
    max_conversations, \* self.max_conversations
    last_cleanup,    \* self.last_cleanup
    now,             \* the wall clock
    next_oid,        \* identity given to the next Conversation object constructed
    ticks,           \* number of clock advances so far
    world,           \* the inputs the callers draw from in this run
    op,              \* the last step: the call made on the store and its arguments, or the clock's tick
    ret,             \* what that call returned
    appended,        \* per call_sid: the (role, content) pairs appended since the stored Conversation was constructed
    ended,           \* the (call_sid, identity) pairs of the Conversations end_conversation has ended
    cleaned,         \* whether the last call executed the clean-up pass, and the dict right before and right after that pass
    call_history,    \* utils/helpers.py: the call_history dict handed to rate_limit_check
    rate_limits,     \* the rate_limits dict handed to rate_limit_check
    allowed,         \* per phone number: the times of the rate_limit_check calls that returned True
    threads,         \* per thread of the server: the call it is executing, its position in it and its locals
    slots,           \* the entries of the dict self.conversations in the order they were added, deleted ones included
    orphans          \* the Conversation objects that are not in the dict, by identity: a thread may hold one

rate_vars == <<call_history, rate_limits, allowed>>
thread_vars == <<threads, slots, orphans>>

vars == <<conversations, max_conversations, last_cleanup, now, next_oid, ticks, world, op, ret, appended, ended, cleaned,
          rate_vars, thread_vars>>

----------------------------------------------------------------------------
(* Bounds of the exploration *)

MaxTicksTurns == 1
MaxMsgsTurns == 3
MaxTicksCalls == 1
MaxMsgsCalls == 1
MaxTicksEvict == 2
MaxTicksAge == 1
MaxTicksRate == 2
MaxTicksApp == 2
MaxRateHistory == 3
MaxRateHistoryConfigured == 12

(* Inputs *)

CallSids == {"CA1", "CA2", "CA3"}
MessageInputs == {<<"user", "Hello">>, <<"assistant", "Hi!">>}
None == "None"
TickDeltas == {3600, 82800, 90000}

\* one call of several turns
WorldTurns ==
    [max_conversations |-> 1,
     sids |-> {"CA1"},
     read_sids |-> {"CA1"},
     numbers |-> {<<None, None>>},
     messages |-> MessageInputs,
     limits |-> {-1, 0, 1, 2},
     list_limits |-> {1},
     queries |-> {"hello"},
     search_limits |-> {0, 1},
     skips |-> {0},
     deltas |-> TickDeltas,
     max_ticks |-> MaxTicksTurns, max_msgs |-> MaxMsgsTurns]

\* two short calls over more than a day, in a store configured to keep one
WorldCalls ==
    [max_conversations |-> 1,
     sids |-> {"CA1", "CA2"},
     read_sids |-> {"CA1", "CA2"},
     numbers |-> {<<None, None>>},
     messages |-> {<<"user", "Hello">>},
     limits |-> {0},
     list_limits |-> {2},
     queries |-> {"hello"},
     search_limits |-> {2},
     skips |-> {0, 1},
     deltas |-> TickDeltas,
     max_ticks |-> MaxTicksCalls, max_msgs |-> MaxMsgsCalls]

\* three calls without a turn, made and ended hours apart, in a store configured to keep two
WorldEvict ==
    [max_conversations |-> 2,
     sids |-> CallSids,
     read_sids |-> {},
     numbers |-> {<<None, None>>},
     messages |-> {},
     limits |-> {},
     list_limits |-> {},
     queries |-> {},
     search_limits |-> {},
     skips |-> {},
     deltas |-> {3600},
     max_ticks |-> MaxTicksEvict, max_msgs |-> 0]

\* one call without a turn, looked up again a day later to the second
WorldAge ==
    [max_conversations |-> 1,
     sids |-> {"CA1"},
     read_sids |-> {},
     numbers |-> {<<None, None>>, <<"+15550001", "+15550002">>, <<"", "+15550003">>},
     messages |-> {},
     limits |-> {},
     list_limits |-> {},
     queries |-> {},
     search_limits |-> {},
     skips |-> {},
     deltas |-> {86400, 86401},
     max_ticks |-> MaxTicksAge, max_msgs |-> 0]

Worlds == {WorldTurns, WorldCalls, WorldEvict, WorldAge}

(* Constants of the program *)

cleanup_interval == 3600
MaxAgeSeconds == 86400

NoThreads == <<>>
NoPass == [ran |-> FALSE, before |-> <<>>, convs |-> <<>>]
NoRet == <<>>

----------------------------------------------------------------------------
(* Conversions *)

\* datetime.isoformat(): a text rendering of the instant, not the instant
IsoFormat(t) == [iso |-> t]

\* dict assignment d[k] = v
DictSet(d, k, v) == [x \in (DOMAIN d) \cup {k} |-> IF x = k THEN v ELSE d[x]]

EmptyDict == [x \in {} |-> 0]

----------------------------------------------------------------------------
(* Texts: a str is the sequence of its characters *)

Chars(text) ==
    CASE text = "Hello" -> <<"H", "e", "l", "l", "o">>
      [] text = "Hi!" -> <<"H", "i", "!">>
      [] text = "hello" -> <<"h", "e", "l", "l", "o">>
      [] text = "HI" -> <<"H", "I">>
      [] text = "A_1" -> <<"A", "_", "1">>
      [] text = "A_2" -> <<"A", "_", "2">>
      [] text = "B" -> <<"B">>

\* str.lower() on one character
LowerChar(ch) ==
    CASE ch = "H" -> "h"
      [] ch = "I" -> "i"
      [] OTHER -> ch

\* str.lower()
Lower(chars) == [i \in 1..Len(chars) |-> LowerChar(chars[i])]

\* needle in hay
Contains(needle, hay) ==
    \E k \in 0..(Len(hay) - Len(needle)) :
        \A i \in 1..Len(needle) : hay[k + i] = needle[i]

\* line 278: query_lower in message.content.lower()
MessageMatches(query, m) == Contains(Lower(Chars(query)), Lower(Chars(m.content)))

----------------------------------------------------------------------------
(* The dict self.conversations *)

Keys(convs) == {convs[i].call_sid : i \in 1..Len(convs)}

IndexOf(convs, call_sid) == CHOOSE i \in 1..Len(convs) : convs[i].call_sid = call_sid

Lookup(convs, call_sid) == convs[IndexOf(convs, call_sid)]

\* del d[k]
Del(convs, call_sid) == SelectSeq(convs, LAMBDA c : c.call_sid # call_sid)

\* Message(role, content, timestamp, metadata)
Message(role, content, timestamp) ==
    [role |-> role, content |-> content, timestamp |-> timestamp, metadata |-> EmptyDict]

\* Conversation(call_sid, from_number or "unknown", to_number or "unknown", now, [], True)
Conversation(oid, call_sid, from_number, to_number, start_time) ==
    [oid |-> oid,
     call_sid |-> call_sid,
     from_number |-> IF from_number \in {None, ""} THEN "unknown" ELSE from_number,
     to_number |-> IF to_number \in {None, ""} THEN "unknown" ELSE to_number,
     start_time |-> start_time,
     messages |-> <<>>,
     is_active |-> TRUE,
     metadata |-> EmptyDict]

----------------------------------------------------------------------------
(* sorted(..., key=start_time): a stable insertion sort *)

RECURSIVE InsertSorted(_, _, _)
InsertSorted(sorted, c, reverse) ==
    IF sorted = <<>> THEN <<c>>
    ELSE LET last == sorted[Len(sorted)]
             before == IF reverse THEN last.start_time >= c.start_time
                                  ELSE last.start_time <= c.start_time
         IN IF before THEN Append(sorted, c)
            ELSE Append(InsertSorted(SubSeq(sorted, 1, Len(sorted) - 1), c, reverse), last)

RECURSIVE SortedByStart(_, _)
SortedByStart(convs, reverse) ==
    IF convs = <<>> THEN <<>>
    ELSE InsertSorted(SortedByStart(SubSeq(convs, 1, Len(convs) - 1), reverse),
                      convs[Len(convs)], reverse)

----------------------------------------------------------------------------
(* _cleanup_old_conversations *)

\* an age sweep that also takes the conversations started exactly 24 hours ago
AgeSweep_Inclusive(convs, t) ==
    SelectSeq(convs, LAMBDA c : ~(c.start_time <= t - MaxAgeSeconds /\ ~c.is_active))

\* lines 303-312: the age sweep
AgeSweep(convs, t) ==
    SelectSeq(convs, LAMBDA c : ~(c.start_time < t - MaxAgeSeconds /\ ~c.is_active))

\* the walk deleting the oldest conversations while over the cap, active or not
RECURSIVE CapacityLoop_IgnoresActive(_, _)
CapacityLoop_IgnoresActive(sorted, convs) ==
    IF sorted = <<>> THEN convs
    ELSE LET c == sorted[1]
         IN IF Len(convs) > max_conversations
            THEN CapacityLoop_IgnoresActive(Tail(sorted), Del(convs, c.call_sid))
            ELSE CapacityLoop_IgnoresActive(Tail(sorted), convs)

\* lines 326-328: walk the conversations oldest first, deleting inactive ones while over the cap
RECURSIVE CapacityLoop(_, _)
CapacityLoop(sorted, convs) ==
    IF sorted = <<>> THEN convs
    ELSE LET c == sorted[1]
         IN IF ~c.is_active /\ Len(convs) > max_conversations
            THEN CapacityLoop(Tail(sorted), Del(convs, c.call_sid))
            ELSE CapacityLoop(Tail(sorted), convs)

\* a pass that stops after the age sweep
CapacitySweep_Off(convs) == convs

\* a capacity sweep that walks the conversations newest first
CapacitySweep_NewestFirst(convs) ==
    IF Len(convs) > max_conversations
    THEN CapacityLoop(SortedByStart(convs, TRUE), convs)
    ELSE convs

\* lines 315-328: the capacity sweep
CapacitySweep(convs) ==
    IF Len(convs) > max_conversations
    THEN CapacityLoop(SortedByStart(convs, FALSE), convs)
    ELSE convs

\* lines 295-299: the throttle
CleanupDue(last, t) == ~(t - last < cleanup_interval)

\* a pass that records its time only when it removed something
cleanup_old_conversations_RecordsOnRemoval(convs, last, t) ==
    IF CleanupDue(last, t)
    THEN LET left == CapacitySweep(AgeSweep(convs, t))
         IN [convs |-> left, last |-> IF left # convs THEN t ELSE last, ran |-> TRUE]
    ELSE [convs |-> convs, last |-> last, ran |-> FALSE]

\* the whole pass: the dict and last_cleanup it leaves, and whether it executed
cleanup_old_conversations(convs, last, t) ==
    IF CleanupDue(last, t)
    THEN [convs |-> CapacitySweep(AgeSweep(convs, t)), last |-> t, ran |-> TRUE]
    ELSE [convs |-> convs, last |-> last, ran |-> FALSE]

----------------------------------------------------------------------------
(* get_conversation as a function of the manager's state: the state it     *)
(* leaves and the Conversation it returns                                  *)

\* lines 77-95: the pass, then the lookup or the construction and insertion
GetConversation(convs, last, oid, call_sid, from_number, to_number, t) ==
    LET pass == cleanup_old_conversations(convs, last, t)
        created == call_sid \notin Keys(pass.convs)
        fresh == Conversation(oid, call_sid, from_number, to_number, t)
        after == IF created THEN Append(pass.convs, fresh) ELSE pass.convs
    IN [convs |-> after,
        last |-> pass.last,
        oid |-> IF created THEN oid + 1 ELSE oid,
        created |-> created,
        ran |-> pass.ran,
        cleaned |-> IF pass.ran THEN [ran |-> TRUE, before |-> convs, convs |-> pass.convs] ELSE NoPass,
        conversation |-> Lookup(after, call_sid)]

\* dict assignment of a mutated Conversation object: the object keeps its place in the dict
Store(convs, c) == [i \in 1..Len(convs) |-> IF convs[i].call_sid = c.call_sid THEN c ELSE convs[i]]

\* the Message inserted at the head of the list
AppendMessage_Prepends(c, role, content, t) ==
    LET msgs == <<Message(role, content, t)>> \o c.messages
    IN [c EXCEPT !.messages = msgs,
                 !.metadata = DictSet(DictSet(c.metadata, "last_activity", IsoFormat(t)),
                                      "message_count", Len(msgs))]

\* message_count taken before the Message is appended
AppendMessage_StaleCount(c, role, content, t) ==
    [c EXCEPT !.messages = Append(c.messages, Message(role, content, t)),
              !.metadata = DictSet(DictSet(c.metadata, "last_activity", IsoFormat(t)),
                                   "message_count", Len(c.messages))]

\* an append that marks the Conversation active again
AppendMessage_Reactivates(c, role, content, t) ==
    LET msgs == Append(c.messages, Message(role, content, t))
    IN [c EXCEPT !.messages = msgs,
                 !.is_active = TRUE,
                 !.metadata = DictSet(DictSet(c.metadata, "last_activity", IsoFormat(t)),
                                      "message_count", Len(msgs))]

\* an append that starts the Conversation again
AppendMessage_Restarts(c, role, content, t) ==
    LET msgs == Append(c.messages, Message(role, content, t))
    IN [c EXCEPT !.messages = msgs,
                 !.start_time = t,
                 !.metadata = DictSet(DictSet(c.metadata, "last_activity", IsoFormat(t)),
                                      "message_count", Len(msgs))]

\* lines 113-124: the Message is appended and the metadata of the Conversation updated
AppendMessage(c, role, content, t) ==
    LET msgs == Append(c.messages, Message(role, content, t))
    IN [c EXCEPT !.messages = msgs,
                 !.metadata = DictSet(DictSet(c.metadata, "last_activity", IsoFormat(t)),
                                      "message_count", Len(msgs))]

\* an end that does not record the duration
Ended_NoDuration(c, t) ==
    [c EXCEPT !.is_active = FALSE,
              !.metadata = DictSet(c.metadata, "end_time", IsoFormat(t))]

\* lines 179-183: the Conversation is marked as ended
Ended(c, t) ==
    [c EXCEPT !.is_active = FALSE,
              !.metadata = DictSet(DictSet(c.metadata, "end_time", IsoFormat(t)),
                                   "duration", t - c.start_time)]

\* an end that resolves the Conversation as the other calls do, creating it when absent
EndConversation_Creates(convs, call_sid, t) ==
    IF call_sid \in Keys(convs)
    THEN [convs |-> Store(convs, Ended(Lookup(convs, call_sid), t)), ret |-> TRUE]
    ELSE [convs |-> Append(convs, Ended(Conversation(0, call_sid, None, None, t), t)), ret |-> TRUE]

\* lines 177-189: end_conversation as a function of the dict: the dict it leaves and what it returns
EndConversation(convs, call_sid, t) ==
    IF call_sid \in Keys(convs)
    THEN [convs |-> Store(convs, Ended(Lookup(convs, call_sid), t)), ret |-> TRUE]
    ELSE [convs |-> convs, ret |-> FALSE]

----------------------------------------------------------------------------
(* Views returned to the caller *)

\* lines 151-158: message dictionaries of get_history and export_conversation
MessageView(m) ==
    [role |-> m.role, content |-> m.content, timestamp |-> IsoFormat(m.timestamp), metadata |-> m.metadata]

MessageViews(msgs) == [i \in 1..Len(msgs) |-> MessageView(msgs[i])]

\* messages[:limit] if limit > 0 else messages
RecentMessages_First(msgs, limit) ==
    IF limit > 0
    THEN (IF limit >= Len(msgs) THEN msgs ELSE SubSeq(msgs, 1, limit))
    ELSE msgs

\* messages[-limit:] if limit > 0 else messages
RecentMessages(msgs, limit) ==
    IF limit > 0
    THEN (IF limit >= Len(msgs) THEN msgs ELSE SubSeq(msgs, Len(msgs) - limit + 1, Len(msgs)))
    ELSE msgs

CountRole(msgs, role) == Cardinality({i \in 1..Len(msgs) : msgs[i].role = role})

\* the stats dictionary with the two role counts exchanged
Stats_Swapped(call_sid, c, t) ==
    [call_sid |-> call_sid,
     from_number |-> c.from_number,
     to_number |-> c.to_number,
     start_time |-> IsoFormat(c.start_time),
     is_active |-> c.is_active,
     total_messages |-> Len(c.messages),
     user_messages |-> Cardinality({i \in 1..Len(c.messages) : c.messages[i].role = "assistant"}),
     assistant_messages |-> Cardinality({i \in 1..Len(c.messages) : c.messages[i].role = "user"}),
     duration_seconds |-> t - c.start_time,
     metadata |-> c.metadata]

\* lines 208-222: the stats dictionary
Stats(call_sid, c, t) ==
    [call_sid |-> call_sid,
     from_number |-> c.from_number,
     to_number |-> c.to_number,
     start_time |-> IsoFormat(c.start_time),
     is_active |-> c.is_active,
     total_messages |-> Len(c.messages),
     user_messages |-> CountRole(c.messages, "user"),
     assistant_messages |-> CountRole(c.messages, "assistant"),
     duration_seconds |-> t - c.start_time,
     metadata |-> c.metadata]

\* lines 349-365: the export dictionary
Export(c) ==
    [call_sid |-> c.call_sid,
     from_number |-> c.from_number,
     to_number |-> c.to_number,
     start_time |-> IsoFormat(c.start_time),
     is_active |-> c.is_active,
     metadata |-> c.metadata,
     messages |-> MessageViews(c.messages)]

\* seq[:limit]
Slice(seq, limit) ==
    IF limit >= 0
    THEN SubSeq(seq, 1, IF limit < Len(seq) THEN limit ELSE Len(seq))
    ELSE SubSeq(seq, 1, IF Len(seq) + limit > 0 THEN Len(seq) + limit ELSE 0)

\* the manager's state threaded through the loops of get_all_conversations and search_conversations
Manager(convs, last, oid) ==
    [convs |-> convs, last |-> last, oid |-> oid, created |-> {}, cleaned |-> NoPass, results |-> <<>>]

\* one get_conversation_stats(call_sid) inside such a loop; extra is merged into the stats
StatsStep(m, call_sid, t, extra) ==
    LET g == GetConversation(m.convs, m.last, m.oid, call_sid, None, None, t)
        stats == Stats(call_sid, g.conversation, t)
    IN [convs |-> g.convs, last |-> g.last, oid |-> g.oid,
        created |-> IF g.created THEN m.created \cup {call_sid} ELSE m.created,
        cleaned |-> IF g.ran THEN g.cleaned ELSE m.cleaned,
        results |-> Append(m.results, [stats |-> stats, matching_message |-> extra])]

\* lines 250-252: the loop of get_all_conversations over the sorted slice
RECURSIVE AllLoop(_, _, _)
AllLoop(m, todo, t) ==
    IF todo = <<>> THEN m
    ELSE AllLoop(StatsStep(m, todo[1].call_sid, t, None), Tail(todo), t)

\* the first message of c whose content matches, 0 if none does
FirstMatch(query, c) ==
    IF \E i \in 1..Len(c.messages) : MessageMatches(query, c.messages[i])
    THEN CHOOSE i \in 1..Len(c.messages) :
            /\ MessageMatches(query, c.messages[i])
            /\ \A j \in 1..(i - 1) : ~MessageMatches(query, c.messages[j])
    ELSE 0

\* RuntimeError raised by the dict iterator, caught at line 289: the call returns []
Raised(m) == [m EXCEPT !.results = <<>>]

\* lines 275-285: the loop of search_conversations over self.conversations.values().
\* todo: the values the iterator has still to yield; mode: "clean" while the dict is as the
\* iterator found it, "replaced" once a value was deleted and another inserted (the iterator
\* raises when it meets the inserted one), "resized" when that insertion rebuilt the table
\* (the iterator ends without raising); skip: the number of values a rebuilt table makes
\* the iterator pass over.
RECURSIVE SearchLoop(_, _, _, _, _, _, _)
SearchLoop(m, todo, query, limit, t, mode, skip) ==
    IF todo = <<>>
    THEN (IF mode = "replaced" THEN Raised(m) ELSE m)
    ELSE LET c == todo[1]
             k == FirstMatch(query, c)
             m2 == IF k > 0 THEN StatsStep(m, c.call_sid, t, c.messages[k].content) ELSE m
             rest == Tail(todo)
         IN IF Len(m2.results) >= limit THEN m2
            ELSE IF Len(m2.convs) # Len(m.convs) THEN Raised(m2)
            ELSE IF m2.created # m.created
                 THEN (IF skip = 0
                       THEN SearchLoop(m2, rest, query, limit, t, "replaced", skip)
                       ELSE SearchLoop(m2, SubSeq(rest, skip + 1, Len(rest)), query, limit, t, "resized", skip))
            ELSE SearchLoop(m2, rest, query, limit, t, mode, skip)

\* number of Message objects held by the store
RECURSIVE TotalMessages(_)
TotalMessages(convs) == IF convs = <<>> THEN 0 ELSE Len(convs[1].messages) + TotalMessages(Tail(convs))

----------------------------------------------------------------------------
(* The calls *)

Call(name, call_sid, role, content, limit, from_number, to_number) ==
    [name |-> name, call_sid |-> call_sid, role |-> role, content |-> content,
     limit |-> limit, from_number |-> from_number, to_number |-> to_number]

\* the appended log of the call_sids whose Conversation a call constructed starts again
ResetLog(log, createdSids) == [s \in CallSids |-> IF s \in createdSids THEN <<>> ELSE log[s]]

Init ==
    /\ world \in Worlds
    /\ conversations = <<>>
    /\ max_conversations = world.max_conversations
    /\ last_cleanup = 0
    /\ now = 0
    /\ next_oid = 1
    /\ ticks = 0
    /\ op = Call("__init__", None, None, None, 0, None, None)
    /\ ret = NoRet
    /\ appended = [s \in CallSids |-> <<>>]
    /\ ended = {}
    /\ cleaned = NoPass
    /\ call_history = EmptyDict
    /\ rate_limits = EmptyDict
    /\ allowed = EmptyDict
    /\ threads = NoThreads
    /\ slots = <<>>
    /\ orphans = EmptyDict

get_conversation(call_sid, from_number, to_number) ==
    LET g == GetConversation(conversations, last_cleanup, next_oid, call_sid, from_number, to_number, now)
    IN /\ conversations' = g.convs
       /\ last_cleanup' = g.last
       /\ next_oid' = g.oid
       /\ op' = Call("get_conversation", call_sid, None, None, 0, from_number, to_number)
       /\ ret' = g.conversation.oid
       /\ appended' = ResetLog(appended, IF g.created THEN {call_sid} ELSE {})
       /\ cleaned' = g.cleaned
       /\ UNCHANGED <<max_conversations, now, ticks, world, ended>>
       /\ UNCHANGED <<rate_vars, thread_vars>>

add_message(call_sid, role, content) ==
    LET g == GetConversation(conversations, last_cleanup, next_oid, call_sid, None, None, now)
        c2 == AppendMessage(g.conversation, role, content, now)
        log == ResetLog(appended, IF g.created THEN {call_sid} ELSE {})
    IN /\ TotalMessages(g.convs) < world.max_msgs
       /\ conversations' = Store(g.convs, c2)
       /\ last_cleanup' = g.last
       /\ next_oid' = g.oid
       /\ op' = Call("add_message", call_sid, role, content, 0, None, None)
       /\ ret' = TRUE
       /\ appended' = [log EXCEPT ![call_sid] = Append(@, <<role, content>>)]
       /\ cleaned' = g.cleaned
       /\ UNCHANGED <<max_conversations, now, ticks, world, ended>>
       /\ UNCHANGED <<rate_vars, thread_vars>>

get_history(call_sid, limit) ==
    LET g == GetConversation(conversations, last_cleanup, next_oid, call_sid, None, None, now)
    IN /\ conversations' = g.convs
       /\ last_cleanup' = g.last
       /\ next_oid' = g.oid
       /\ op' = Call("get_history", call_sid, None, None, limit, None, None)
       /\ ret' = MessageViews(RecentMessages(g.conversation.messages, limit))
       /\ appended' = ResetLog(appended, IF g.created THEN {call_sid} ELSE {})
       /\ cleaned' = g.cleaned
       /\ UNCHANGED <<max_conversations, now, ticks, world, ended>>
       /\ UNCHANGED <<rate_vars, thread_vars>>

end_conversation(call_sid) ==
    LET e == EndConversation(conversations, call_sid, now)
    IN /\ conversations' = e.convs
       /\ op' = Call("end_conversation", call_sid, None, None, 0, None, None)
       /\ ret' = e.ret
       /\ ended' = ended \cup {<<call_sid, conversations[i].oid>> : i \in {j \in 1..Len(conversations) : conversations[j].call_sid = call_sid}}
       /\ cleaned' = NoPass
       /\ UNCHANGED <<max_conversations, last_cleanup, now, next_oid, ticks, world, appended>>
       /\ UNCHANGED <<rate_vars, thread_vars>>

get_conversation_stats(call_sid) ==
    LET g == GetConversation(conversations, last_cleanup, next_oid, call_sid, None, None, now)
    IN /\ conversations' = g.convs
       /\ last_cleanup' = g.last
       /\ next_oid' = g.oid
       /\ op' = Call("get_conversation_stats", call_sid, None, None, 0, None, None)
       /\ ret' = Stats(call_sid, g.conversation, now)
       /\ appended' = ResetLog(appended, IF g.created THEN {call_sid} ELSE {})
       /\ cleaned' = g.cleaned
       /\ UNCHANGED <<max_conversations, now, ticks, world, ended>>
       /\ UNCHANGED <<rate_vars, thread_vars>>

get_all_conversations(limit) ==
    LET sorted_conversations == SortedByStart(conversations, TRUE)
        m == AllLoop(Manager(conversations, last_cleanup, next_oid), Slice(sorted_conversations, limit), now)
    IN /\ conversations' = m.convs
       /\ last_cleanup' = m.last
       /\ next_oid' = m.oid
       /\ op' = Call("get_all_conversations", None, None, None, limit, None, None)
       /\ ret' = [i \in 1..Len(m.results) |-> m.results[i].stats]
       /\ appended' = ResetLog(appended, m.created)
       /\ cleaned' = m.cleaned
       /\ UNCHANGED <<max_conversations, now, ticks, world, ended>>
       /\ UNCHANGED <<rate_vars, thread_vars>>

search_conversations(query, limit, skip) ==
    LET m == SearchLoop(Manager(conversations, last_cleanup, next_oid), conversations, query, limit, now, "clean", skip)
    IN /\ conversations' = m.convs
       /\ last_cleanup' = m.last
       /\ next_oid' = m.oid
       /\ op' = Call("search_conversations", None, None, query, limit, None, None)
       /\ ret' = m.results
       /\ appended' = ResetLog(appended, m.created)
       /\ cleaned' = m.cleaned
       /\ UNCHANGED <<max_conversations, now, ticks, world, ended>>
       /\ UNCHANGED <<rate_vars, thread_vars>>

export_conversation(call_sid) ==
    LET g == GetConversation(conversations, last_cleanup, next_oid, call_sid, None, None, now)
    IN /\ conversations' = g.convs
       /\ last_cleanup' = g.last
       /\ next_oid' = g.oid
       /\ op' = Call("export_conversation", call_sid, None, None, 0, None, None)
       /\ ret' = Export(g.conversation)
       /\ appended' = ResetLog(appended, IF g.created THEN {call_sid} ELSE {})
       /\ cleaned' = g.cleaned
       /\ UNCHANGED <<max_conversations, now, ticks, world, ended>>
       /\ UNCHANGED <<rate_vars, thread_vars>>

\* the wall clock advances between two calls
Tick(d) ==
    /\ ticks < world.max_ticks
    /\ now' = now + d
    /\ ticks' = ticks + 1
    /\ op' = Call("tick", None, None, None, d, None, None)
    /\ ret' = NoRet
    /\ cleaned' = NoPass
    /\ UNCHANGED <<conversations, max_conversations, last_cleanup, next_oid, world, appended, ended>>
    /\ UNCHANGED <<rate_vars, thread_vars>>

Next ==
    \/ \E s \in world.sids, n \in world.numbers : get_conversation(s, n[1], n[2])
    \/ \E s \in world.sids, m \in world.messages : add_message(s, m[1], m[2])
    \/ \E s \in world.read_sids, l \in world.limits : get_history(s, l)
    \/ \E s \in world.sids : end_conversation(s)
    \/ \E s \in world.read_sids : get_conversation_stats(s)
    \/ \E l \in world.list_limits : get_all_conversations(l)
    \/ \E q \in world.queries, l \in world.search_limits, k \in world.skips : search_conversations(q, l, k)
    \/ \E s \in world.read_sids : export_conversation(s)
    \/ \E d \in world.deltas : Tick(d)

Spec == Init /\ [][Next]_vars

----------------------------------------------------------------------------
(* utils/helpers.py: rate_limit_check *)

RateCallSids == {"A_1", "A_2", "B"}

\* config/settings.py: SECURITY_SETTINGS['rate_limit']
SECURITY_SETTINGS_rate_limit ==
    [calls_per_minute |-> 10, calls_per_hour |-> 100, calls_per_day |-> 1000]

\* the rate_limits dicts handed in: the configured one, one with three small limits, one
\* with calls_per_minute only
RateLimitInputs ==
    {SECURITY_SETTINGS_rate_limit,
     [calls_per_minute |-> 1, calls_per_hour |-> 2, calls_per_day |-> 3],
     [calls_per_minute |-> 2]}

\* calls of three call_sids of two phone numbers, under the small limits
WorldRate ==
    [max_conversations |-> 1000,
     sids |-> RateCallSids,
     read_sids |-> {},
     numbers |-> {},
     messages |-> {},
     limits |-> {},
     list_limits |-> {},
     queries |-> {},
     search_limits |-> {},
     skips |-> {},
     deltas |-> {30, 60, 3600, 86400},
     max_ticks |-> MaxTicksRate, max_msgs |-> MaxRateHistory]

\* calls of two call_sids of one phone number, under the configured limits
WorldRateConfigured ==
    [max_conversations |-> 1000,
     sids |-> {"A_1", "A_2"},
     read_sids |-> {},
     numbers |-> {},
     messages |-> {},
     limits |-> {},
     list_limits |-> {},
     queries |-> {},
     search_limits |-> {},
     skips |-> {},
     deltas |-> {30, 60},
     max_ticks |-> MaxTicksRate, max_msgs |-> MaxRateHistoryConfigured]

\* d.get(k, default)
DictGet(d, k, default) == IF k \in DOMAIN d THEN d[k] ELSE default

\* line 240: call_sid.split('_')[0] if '_' in call_sid else call_sid
PhoneNumber(call_sid) ==
    LET cs == Chars(call_sid)
    IN IF \E i \in 1..Len(cs) : cs[i] = "_"
       THEN SubSeq(cs, 1, (CHOOSE i \in 1..Len(cs) : cs[i] = "_" /\ \A j \in 1..(i - 1) : cs[j] # "_") - 1)
       ELSE cs

\* lines 246-249, 252-255, 257-260: the calls of a history made less than span seconds before t
Within(history, t, span) == SelectSeq(history, LAMBDA call_time : t - call_time < span)

\* lines 246-272: the history of the phone number after the call, and what the call returns
RateLimitCheck(history, limits, t) ==
    LET recent == Within(history, t, 86400)
        calls_per_minute == Len(Within(recent, t, 60))
        calls_per_hour == Len(Within(recent, t, 3600))
        calls_per_day == Len(recent)
        denied == \/ calls_per_minute > DictGet(limits, "calls_per_minute", 10)
                  \/ calls_per_hour > DictGet(limits, "calls_per_hour", 100)
                  \/ calls_per_day > DictGet(limits, "calls_per_day", 1000)
    IN [history |-> IF denied THEN recent ELSE Append(recent, t), ret |-> ~denied]

InitRate ==
    /\ rate_limits \in RateLimitInputs
    /\ world = IF rate_limits = SECURITY_SETTINGS_rate_limit THEN WorldRateConfigured ELSE WorldRate
    /\ conversations = <<>>
    /\ max_conversations = world.max_conversations
    /\ last_cleanup = 0
    /\ now = 0
    /\ next_oid = 1
    /\ ticks = 0
    /\ op = Call("__init__", None, None, None, 0, None, None)
    /\ ret = NoRet
    /\ appended = [s \in CallSids |-> <<>>]
    /\ ended = {}
    /\ cleaned = NoPass
    /\ call_history = EmptyDict
    /\ allowed = EmptyDict
    /\ threads = NoThreads
    /\ slots = <<>>
    /\ orphans = EmptyDict

rate_limit_check(call_sid) ==
    LET phone_number == PhoneNumber(call_sid)
        history == DictGet(call_history, phone_number, <<>>)
        r == RateLimitCheck(history, rate_limits, now)
    IN /\ Len(history) < world.max_msgs
       /\ call_history' = DictSet(call_history, phone_number, r.history)
       /\ op' = Call("rate_limit_check", call_sid, None, None, 0, None, None)
       /\ ret' = r.ret
       /\ allowed' = DictSet(allowed, phone_number,
                             IF r.ret THEN Append(DictGet(allowed, phone_number, <<>>), now)
                             ELSE DictGet(allowed, phone_number, <<>>))
       /\ UNCHANGED <<conversations, max_conversations, last_cleanup, now, next_oid, ticks, world,
                      appended, ended, cleaned, rate_limits, thread_vars>>

NextRate ==
    \/ \E s \in world.sids : rate_limit_check(s)
    \/ \E d \in world.deltas : Tick(d)

SpecRate == InitRate /\ [][NextRate]_vars

----------------------------------------------------------------------------
(* app.py: the Flask application around the module-level conversation_manager *)

\* lines 63-66: the CallSid and SpeechResult fields of the posted form
SpeechResults == {"", "Hello"}

WorldApp ==
    [max_conversations |-> 1000,
     sids |-> {"CA1", "CA2"},
     read_sids |-> {},
     numbers |-> {},
     messages |-> {},
     limits |-> {},
     list_limits |-> {50},
     queries |-> {},
     search_limits |-> {},
     skips |-> {},
     deltas |-> {3600, 90000},
     max_ticks |-> MaxTicksApp, max_msgs |-> 0]

\* chatbot/conversation.py lines 28-45: the attributes of a Conversation object
ConversationAttributes ==
    {"call_sid", "from_number", "to_number", "start_time", "messages", "is_active", "metadata",
     "__post_init__"}

\* lines 142-145: the TwiML of the except branch, as the verbs it holds
TechnicalDifficulties ==
    <<[say |-> "I'm sorry, I'm experiencing technical difficulties. Please try again later."]>>

\* line 44: conversation_manager = ConversationManager()
InitApp ==
    /\ world = WorldApp
    /\ conversations = <<>>
    /\ max_conversations = world.max_conversations
    /\ last_cleanup = 0
    /\ now = 0
    /\ next_oid = 1
    /\ ticks = 0
    /\ op = Call("__init__", None, None, None, 0, None, None)
    /\ ret = NoRet
    /\ appended = [s \in CallSids |-> <<>>]
    /\ ended = {}
    /\ cleaned = NoPass
    /\ call_history = EmptyDict
    /\ rate_limits = EmptyDict
    /\ allowed = EmptyDict
    /\ threads = NoThreads
    /\ slots = <<>>
    /\ orphans = EmptyDict

\* lines 56-145: POST /webhook.  Line 73 looks the Conversation up or creates it, without the
\* numbers; line 79 evaluates conversation.is_started, which no Conversation has, so
\* AttributeError is raised there, lines 80-138 are not executed and the except branch
\* answers.
webhook(call_sid, speech_result) ==
    LET g == GetConversation(conversations, last_cleanup, next_oid, call_sid, None, None, now)
    IN /\ "is_started" \notin ConversationAttributes
       /\ conversations' = g.convs
       /\ last_cleanup' = g.last
       /\ next_oid' = g.oid
       /\ op' = Call("webhook", call_sid, "user", speech_result, 0, None, None)
       /\ ret' = TechnicalDifficulties
       /\ appended' = ResetLog(appended, IF g.created THEN {call_sid} ELSE {})
       /\ cleaned' = g.cleaned
       /\ UNCHANGED <<max_conversations, now, ticks, world, ended>>
       /\ UNCHANGED <<rate_vars, thread_vars>>

\* lines 176-184: GET /api/conversations
api_conversations == get_all_conversations(50)

NextApp ==
    \/ \E s \in world.sids, speech_result \in SpeechResults : webhook(s, speech_result)
    \/ api_conversations
    \/ \E d \in world.deltas : Tick(d)

\* requests keep arriving and the clock keeps advancing
SpecApp ==
    /\ InitApp
    /\ [][NextApp]_vars
    /\ WF_vars(\E s \in world.sids, speech_result \in SpeechResults : webhook(s, speech_result))
    /\ WF_vars(\E d \in world.deltas : Tick(d))

----------------------------------------------------------------------------
(* Two threads of the server, each making one call on the same ConversationManager. *)
(* The code takes no lock; a thread can be suspended between two statements, between *)
(* two rounds of a loop, and between the evaluation of a right-hand side and the     *)
(* assignment of its value.  A step below is what one thread does between two such   *)
(* points: it reads or writes the dict, last_cleanup or a Conversation at most once.  *)
(* The interpreter switches threads after a call and after the backward jump of a    *)
(* loop; sorted() makes its list of the items of the dict without such a point.      *)

Threads == {1, 2}
ThreadCallSids == {"CA1", "CA2"}
ThreadCalls == {"get_conversation", "add_message"}

\* the message thread i appends
ThreadMessage(i) == IF i = 1 THEN <<"user", "Hello">> ELSE <<"assistant", "Hi!">>

\* a deleted entry of the dict
Tomb == "<dummy>"

NoIter == [pos |-> 0, len |-> 0, used |-> 0]

IdleThread ==
    [pc |-> "idle", name |-> None, call_sid |-> None, role |-> None, content |-> None,
     absent |-> FALSE, it |-> NoIter, old |-> <<>>, sorted |-> <<>>, inactive |-> {},
     conv |-> 0, n |-> 0, ret |-> NoRet, passed |-> FALSE, recorded |-> FALSE, error |-> None]

\* the stores the two calls can find: what a single thread leaves after
\*   nothing;  get_conversation(CA1);
\*   get_conversation(CA1), get_conversation(CA2), end_conversation(CA1), end_conversation(CA2),
\*   an hour later;
\*   get_conversation(CA1), get_conversation(CA2), end_conversation(CA1), 25 hours later
StoreOfOne == GetConversation(<<>>, 0, 1, "CA1", None, None, 0).convs
StoreOfTwo == GetConversation(StoreOfOne, 0, 2, "CA2", None, None, 0).convs
StoreOfTwoEnded == EndConversation(EndConversation(StoreOfTwo, "CA1", 0).convs, "CA2", 0).convs
StoreOfTwoOneEnded == EndConversation(StoreOfTwo, "CA1", 0).convs

ThreadStarts ==
    {[convs |-> <<>>, oid |-> 1, now |-> 0],
     [convs |-> StoreOfOne, oid |-> 2, now |-> 0],
     [convs |-> StoreOfTwoEnded, oid |-> 3, now |-> 3600],
     [convs |-> StoreOfTwoOneEnded, oid |-> 3, now |-> 90000]}

WorldThreads ==
    [max_conversations |-> 1,
     sids |-> ThreadCallSids,
     read_sids |-> {},
     numbers |-> {<<None, None>>},
     messages |-> {ThreadMessage(i) : i \in Threads},
     limits |-> {},
     list_limits |-> {},
     queries |-> {},
     search_limits |-> {},
     skips |-> {},
     deltas |-> {},
     max_ticks |-> 0, max_msgs |-> 2]

\* del d[k] on the entries
SlotsDel(sl, call_sid) == [j \in 1..Len(sl) |-> IF sl[j] = call_sid THEN Tomb ELSE sl[j]]

Live(sl) == SelectSeq(sl, LAMBDA k : k # Tomb)

\* next() of an iterator over the dict: the iterator raises RuntimeError when the number of
\* keys is not the one it started with, ends after the last entry, raises RuntimeError when
\* it finds an entry after having yielded as many as it started with, and otherwise yields
\* the next entry that is not deleted
IterNext(it, sl) ==
    LET rest == {j \in (it.pos + 1)..Len(sl) : sl[j] # Tomb}
        j == CHOOSE k \in rest : \A l \in rest : k <= l
    IN IF it.used # Len(Live(sl)) THEN [status |-> "dictionary changed size during iteration", it |-> it, key |-> None]
       ELSE IF rest = {} THEN [status |-> "stop", it |-> it, key |-> None]
       ELSE IF it.len = 0 THEN [status |-> "dictionary keys changed during iteration", it |-> it, key |-> None]
       ELSE [status |-> "item", it |-> [it EXCEPT !.pos = j, !.len = it.len - 1], key |-> sl[j]]

\* the Conversation object of identity oid, stored or not
Stored(oid) == \E j \in 1..Len(conversations) : conversations[j].oid = oid

Obj(oid) ==
    IF Stored(oid)
    THEN conversations[CHOOSE j \in 1..Len(conversations) : conversations[j].oid = oid]
    ELSE orphans[oid]

InitThreads ==
    /\ world = WorldThreads
    /\ \E start \in ThreadStarts :
         /\ conversations = start.convs
         /\ next_oid = start.oid
         /\ now = start.now
         /\ slots = [j \in 1..Len(start.convs) |-> start.convs[j].call_sid]
    /\ max_conversations = world.max_conversations
    /\ last_cleanup = 0
    /\ ticks = 0
    /\ op = Call("__init__", None, None, None, 0, None, None)
    /\ ret = NoRet
    /\ appended = [s \in CallSids |-> <<>>]
    /\ ended = {}
    /\ cleaned = NoPass
    /\ call_history = EmptyDict
    /\ rate_limits = EmptyDict
    /\ allowed = EmptyDict
    /\ threads = [i \in Threads |-> IdleThread]
    /\ orphans = EmptyDict

ThreadFrame ==
    UNCHANGED <<max_conversations, now, ticks, world, op, ret, appended, ended, cleaned, rate_vars>>

\* thread i enters get_conversation(call_sid) or add_message(call_sid, role, content)
Begin(i, name, call_sid) ==
    /\ threads[i].pc = "idle"
    /\ threads' = [threads EXCEPT ![i] =
                     [@ EXCEPT !.pc = "throttle", !.name = name, !.call_sid = call_sid,
                               !.role = ThreadMessage(i)[1], !.content = ThreadMessage(i)[2],
                               !.absent = call_sid \notin Keys(conversations)]]
    /\ UNCHANGED <<conversations, last_cleanup, next_oid, slots, orphans>>
    /\ ThreadFrame

\* lines 295-298: the throttle
Throttle(i) ==
    /\ threads[i].pc = "throttle"
    /\ threads' = [threads EXCEPT ![i] =
                     IF CleanupDue(last_cleanup, now)
                     THEN [@ EXCEPT !.pc = "age_iter", !.passed = TRUE, !.old = <<>>]
                     ELSE [@ EXCEPT !.pc = "lookup"]]
    /\ UNCHANGED <<conversations, last_cleanup, next_oid, slots, orphans>>
    /\ ThreadFrame

\* iter(self.conversations.items()): the iterator remembers the number of keys
NewIter == [pos |-> 0, len |-> Len(conversations), used |-> Len(conversations)]

\* lines 303-306: a pass that is due starts its scan of the dict
AgeIter(i) ==
    /\ threads[i].pc = "age_iter"
    /\ threads' = [threads EXCEPT ![i] = [@ EXCEPT !.pc = "age_scan", !.it = NewIter]]
    /\ UNCHANGED <<conversations, last_cleanup, next_oid, slots, orphans>>
    /\ ThreadFrame

\* lines 333-334: the pass ends with the exception caught, and get_conversation goes on
Caught(th, error) == [th EXCEPT !.pc = "lookup", !.error = error]

\* lines 306-308: one round of the scan
AgeScan(i) ==
    /\ threads[i].pc = "age_scan"
    /\ LET nx == IterNext(threads[i].it, slots)
       IN threads' = [threads EXCEPT ![i] =
            IF nx.status = "stop" THEN [@ EXCEPT !.pc = "age_del"]
            ELSE IF nx.status = "item"
                 THEN LET conversation == Lookup(conversations, nx.key)
                      IN [@ EXCEPT !.it = nx.it,
                                   !.old = IF conversation.start_time < now - MaxAgeSeconds /\ ~conversation.is_active
                                           THEN Append(@, nx.key) ELSE @]
                 ELSE Caught(@, nx.status)]
    /\ UNCHANGED <<conversations, last_cleanup, next_oid, slots, orphans>>
    /\ ThreadFrame

\* the dict, its entries and the objects out of it after del self.conversations[call_sid]
Deleted(call_sid) ==
    /\ conversations' = Del(conversations, call_sid)
    /\ slots' = SlotsDel(slots, call_sid)
    /\ orphans' = DictSet(orphans, Lookup(conversations, call_sid).oid, Lookup(conversations, call_sid))

\* lines 311-312: one round of the deletions of the age sweep; KeyError goes to lines 333-334
AgeDel(i) ==
    /\ threads[i].pc = "age_del"
    /\ IF threads[i].old = <<>>
       THEN /\ threads' = [threads EXCEPT ![i] = [@ EXCEPT !.pc = "cap_check"]]
            /\ UNCHANGED <<conversations, slots, orphans>>
       ELSE IF threads[i].old[1] \in Keys(conversations)
            THEN /\ Deleted(threads[i].old[1])
                 /\ threads' = [threads EXCEPT ![i] = [@ EXCEPT !.old = Tail(@)]]
            ELSE /\ threads' = [threads EXCEPT ![i] = Caught(@, "KeyError")]
                 /\ UNCHANGED <<conversations, slots, orphans>>
    /\ UNCHANGED <<last_cleanup, next_oid>>
    /\ ThreadFrame

\* line 315: the test of the size
CapCheck(i) ==
    /\ threads[i].pc = "cap_check"
    /\ threads' = [threads EXCEPT ![i] =
                     IF Len(conversations) > max_conversations
                     THEN [@ EXCEPT !.pc = "cap_sorted"]
                     ELSE [@ EXCEPT !.pc = "record"]]
    /\ UNCHANGED <<conversations, last_cleanup, next_oid, slots, orphans>>
    /\ ThreadFrame

\* lines 316-319: the items of the dict, sorted by start_time
CapSorted(i) ==
    /\ threads[i].pc = "cap_sorted"
    /\ LET sorted_conversations == SortedByStart(conversations, FALSE)
       IN threads' = [threads EXCEPT ![i] =
            [@ EXCEPT !.pc = "active_iter",
                      !.sorted = [j \in 1..Len(sorted_conversations) |-> sorted_conversations[j].call_sid]]]
    /\ UNCHANGED <<conversations, last_cleanup, next_oid, slots, orphans>>
    /\ ThreadFrame

\* line 322: the iterator of the comprehension active_conversations
ActiveIter(i) ==
    /\ threads[i].pc = "active_iter"
    /\ threads' = [threads EXCEPT ![i] = [@ EXCEPT !.pc = "active_scan", !.it = NewIter]]
    /\ UNCHANGED <<conversations, last_cleanup, next_oid, slots, orphans>>
    /\ ThreadFrame

\* line 322: one round of the comprehension; its dict is not read again
ActiveScan(i) ==
    /\ threads[i].pc = "active_scan"
    /\ LET nx == IterNext(threads[i].it, slots)
       IN threads' = [threads EXCEPT ![i] =
            IF nx.status = "stop" THEN [@ EXCEPT !.pc = "inactive_iter"]
            ELSE IF nx.status = "item" THEN [@ EXCEPT !.it = nx.it]
            ELSE Caught(@, nx.status)]
    /\ UNCHANGED <<conversations, last_cleanup, next_oid, slots, orphans>>
    /\ ThreadFrame

\* line 323: the iterator of the comprehension inactive_conversations
InactiveIter(i) ==
    /\ threads[i].pc = "inactive_iter"
    /\ threads' = [threads EXCEPT ![i] = [@ EXCEPT !.pc = "inactive_scan", !.it = NewIter, !.inactive = {}]]
    /\ UNCHANGED <<conversations, last_cleanup, next_oid, slots, orphans>>
    /\ ThreadFrame

\* line 323: one round of the comprehension
InactiveScan(i) ==
    /\ threads[i].pc = "inactive_scan"
    /\ LET nx == IterNext(threads[i].it, slots)
       IN threads' = [threads EXCEPT ![i] =
            IF nx.status = "stop" THEN [@ EXCEPT !.pc = "cap_loop"]
            ELSE IF nx.status = "item"
                 THEN [@ EXCEPT !.it = nx.it,
                                !.inactive = IF ~Lookup(conversations, nx.key).is_active
                                             THEN @ \cup {nx.key} ELSE @]
                 ELSE Caught(@, nx.status)]
    /\ UNCHANGED <<conversations, last_cleanup, next_oid, slots, orphans>>
    /\ ThreadFrame

\* lines 326-327: one round of the capacity sweep, up to the test of the size
CapLoop(i) ==
    /\ threads[i].pc = "cap_loop"
    /\ threads' = [threads EXCEPT ![i] =
                     IF threads[i].sorted = <<>> THEN [@ EXCEPT !.pc = "record"]
                     ELSE IF threads[i].sorted[1] \in threads[i].inactive /\ Len(conversations) > max_conversations
                          THEN [@ EXCEPT !.pc = "cap_del"]
                          ELSE [@ EXCEPT !.sorted = Tail(@)]]
    /\ UNCHANGED <<conversations, last_cleanup, next_oid, slots, orphans>>
    /\ ThreadFrame

\* line 328: the deletion; KeyError goes to lines 333-334
CapDel(i) ==
    /\ threads[i].pc = "cap_del"
    /\ IF threads[i].sorted[1] \in Keys(conversations)
       THEN /\ Deleted(threads[i].sorted[1])
            /\ threads' = [threads EXCEPT ![i] = [@ EXCEPT !.pc = "cap_loop", !.sorted = Tail(@)]]
       ELSE /\ threads' = [threads EXCEPT ![i] = Caught(@, "KeyError")]
            /\ UNCHANGED <<conversations, slots, orphans>>
    /\ UNCHANGED <<last_cleanup, next_oid>>
    /\ ThreadFrame

\* line 330: the pass records the time read at line 295
Record(i) ==
    /\ threads[i].pc = "record"
    /\ last_cleanup' = now
    /\ threads' = [threads EXCEPT ![i] = [@ EXCEPT !.pc = "lookup", !.recorded = TRUE]]
    /\ UNCHANGED <<conversations, next_oid, slots, orphans>>
    /\ ThreadFrame

\* where a thread goes once it holds its Conversation
Holding(th, oid) ==
    IF th.name = "get_conversation"
    THEN [th EXCEPT !.pc = "done", !.conv = oid, !.ret = oid]
    ELSE [th EXCEPT !.pc = "append", !.conv = oid]

\* lines 80, 93: the test of membership, and the Conversation found
ThreadLookup(i) ==
    /\ threads[i].pc = "lookup"
    /\ threads' = [threads EXCEPT ![i] =
                     IF threads[i].call_sid \notin Keys(conversations)
                     THEN [@ EXCEPT !.pc = "construct"]
                     ELSE Holding(@, Lookup(conversations, threads[i].call_sid).oid)]
    /\ UNCHANGED <<conversations, last_cleanup, next_oid, slots, orphans>>
    /\ ThreadFrame

\* lines 82-89: the Conversation is constructed; only its thread holds it
Construct(i) ==
    /\ threads[i].pc = "construct"
    /\ orphans' = DictSet(orphans, next_oid, Conversation(next_oid, threads[i].call_sid, None, None, now))
    /\ threads' = [threads EXCEPT ![i] = [@ EXCEPT !.pc = "insert", !.conv = next_oid]]
    /\ next_oid' = next_oid + 1
    /\ UNCHANGED <<conversations, last_cleanup, slots>>
    /\ ThreadFrame

\* d without the key k
DictWithout(d, k) == [j \in DOMAIN d \ {k} |-> d[j]]

\* line 90: the Conversation is assigned to self.conversations[call_sid], in place of the
\* one another thread may have assigned since line 80
Insert(i) ==
    /\ threads[i].pc = "insert"
    /\ LET call_sid == threads[i].call_sid
           conversation == orphans[threads[i].conv]
       IN IF call_sid \in Keys(conversations)
          THEN /\ conversations' = Store(conversations, conversation)
               /\ slots' = slots
               /\ orphans' = DictSet(DictWithout(orphans, conversation.oid),
                                     Lookup(conversations, call_sid).oid, Lookup(conversations, call_sid))
          ELSE /\ conversations' = Append(conversations, conversation)
               /\ slots' = Append(slots, call_sid)
               /\ orphans' = DictWithout(orphans, conversation.oid)
    /\ threads' = [threads EXCEPT ![i] = Holding(@, threads[i].conv)]
    /\ UNCHANGED <<last_cleanup, next_oid>>
    /\ ThreadFrame

\* the object c, changed by the thread that holds it
Mutated(c) ==
    IF Stored(c.oid)
    THEN conversations' = Store(conversations, c) /\ orphans' = orphans
    ELSE conversations' = conversations /\ orphans' = DictSet(orphans, c.oid, c)

\* lines 113-120: the Message is appended to the Conversation held
ThreadAppend(i) ==
    /\ threads[i].pc = "append"
    /\ LET c == Obj(threads[i].conv)
       IN Mutated([c EXCEPT !.messages = Append(@, Message(threads[i].role, threads[i].content, now))])
    /\ threads' = [threads EXCEPT ![i] = [@ EXCEPT !.pc = "stamp"]]
    /\ UNCHANGED <<last_cleanup, next_oid, slots>>
    /\ ThreadFrame

\* line 123: last_activity is set
Stamp(i) ==
    /\ threads[i].pc = "stamp"
    /\ LET c == Obj(threads[i].conv)
       IN Mutated([c EXCEPT !.metadata = DictSet(@, "last_activity", IsoFormat(now))])
    /\ threads' = [threads EXCEPT ![i] = [@ EXCEPT !.pc = "count"]]
    /\ UNCHANGED <<last_cleanup, next_oid, slots>>
    /\ ThreadFrame

\* line 124, right-hand side: len(conversation.messages)
Count(i) ==
    /\ threads[i].pc = "count"
    /\ threads' = [threads EXCEPT ![i] = [@ EXCEPT !.pc = "set_count", !.n = Len(Obj(threads[i].conv).messages)]]
    /\ UNCHANGED <<conversations, last_cleanup, next_oid, slots, orphans>>
    /\ ThreadFrame

\* line 124, the assignment, and line 127
SetCount(i) ==
    /\ threads[i].pc = "set_count"
    /\ LET c == Obj(threads[i].conv)
       IN Mutated([c EXCEPT !.metadata = DictSet(@, "message_count", threads[i].n)])
    /\ threads' = [threads EXCEPT ![i] = [@ EXCEPT !.pc = "done", !.ret = TRUE]]
    /\ UNCHANGED <<last_cleanup, next_oid, slots>>
    /\ ThreadFrame

NextThreads ==
    \/ \E i \in Threads, name \in ThreadCalls, s \in world.sids : Begin(i, name, s)
    \/ \E i \in Threads : Throttle(i)
    \/ \E i \in Threads : AgeIter(i)
    \/ \E i \in Threads : AgeScan(i)
    \/ \E i \in Threads : AgeDel(i)
    \/ \E i \in Threads : CapCheck(i)
    \/ \E i \in Threads : CapSorted(i)
    \/ \E i \in Threads : ActiveIter(i)
    \/ \E i \in Threads : ActiveScan(i)
    \/ \E i \in Threads : InactiveIter(i)
    \/ \E i \in Threads : InactiveScan(i)
    \/ \E i \in Threads : CapLoop(i)
    \/ \E i \in Threads : CapDel(i)
    \/ \E i \in Threads : Record(i)
    \/ \E i \in Threads : ThreadLookup(i)
    \/ \E i \in Threads : Construct(i)
    \/ \E i \in Threads : Insert(i)
    \/ \E i \in Threads : ThreadAppend(i)
    \/ \E i \in Threads : Stamp(i)
    \/ \E i \in Threads : Count(i)
    \/ \E i \in Threads : SetCount(i)

SpecThreads == InitThreads /\ [][NextThreads]_vars

----------------------------------------------------------------------------
(* Properties *)

\* C1: a get_conversation on a call_sid that is in the store returns the Conversation
\* stored under it (the one the earlier calls returned and changed), unchanged, in every
\* store state, a clean-up pass being due or not
C1_AlwaysSameConversation ==
    [][\A s \in CallSids :
         (op'.name = "get_conversation" /\ op'.call_sid = s /\ s \in Keys(conversations))
         => /\ ret' = Lookup(conversations, s).oid
            /\ Lookup(conversations', s) = Lookup(conversations, s)]_vars

\* C2: get_history(call_sid, 0) returns exactly the messages appended to the Conversation
\* of call_sid, with their roles and contents, in the order of the appends
C2_HistoryIsAppendOrder ==
    (op.name = "get_history" /\ op.limit = 0)
    => /\ Len(ret) = Len(appended[op.call_sid])
       /\ \A i \in 1..Len(ret) :
            /\ ret[i].role = appended[op.call_sid][i][1]
            /\ ret[i].content = appended[op.call_sid][i][2]

\* the whole history of three appends of alternating roles was returned
C2_Witness ==
    /\ op.name = "get_history"
    /\ op.limit = 0
    /\ Len(ret) = 3
    /\ appended[op.call_sid] = <<<<"user", "Hello">>, <<"assistant", "Hi!">>, <<"user", "Hello">>>>

\* C3: get_history(call_sid, k) returns the last min(k, N) of the N messages of the
\* Conversation, oldest first, when k > 0, and all N messages when k <= 0
C3_HistoryIsLastK ==
    op.name = "get_history"
    => LET msgs == Lookup(conversations, op.call_sid).messages
           N == Len(msgs)
           k == op.limit
           n == IF k > 0 THEN (IF k < N THEN k ELSE N) ELSE N
       IN /\ Len(ret) = n
          /\ \A i \in 1..n :
               /\ ret[i].role = msgs[N - n + i].role
               /\ ret[i].content = msgs[N - n + i].content
               /\ ret[i].timestamp.iso = msgs[N - n + i].timestamp

\* fewer messages than the Conversation holds were asked for, and the last is not the first
C3_Witness ==
    /\ op.name = "get_history"
    /\ op.limit = 2
    /\ Len(ret) = 2
    /\ Len(Lookup(conversations, op.call_sid).messages) = 3
    /\ ret[2].role # Lookup(conversations, op.call_sid).messages[1].role

\* C4: get_conversation_stats reports the number of messages of the Conversation, the
\* numbers of its 'user' and of its 'assistant' messages and its is_active flag as they are
\* when the call returns; after one user and one assistant append to a Conversation that
\* was not ended it reports 2, 1, 1 and true
C4_StatsAreLive ==
    op.name = "get_conversation_stats"
    => LET c == Lookup(conversations, op.call_sid)
       IN /\ ret.total_messages = Len(c.messages)
          /\ ret.user_messages = Cardinality({i \in 1..Len(c.messages) : c.messages[i].role = "user"})
          /\ ret.assistant_messages = Cardinality({i \in 1..Len(c.messages) : c.messages[i].role = "assistant"})
          /\ ret.is_active = c.is_active
          /\ (/\ appended[op.call_sid] = <<<<"user", "Hello">>, <<"assistant", "Hi!">>>>
              /\ <<op.call_sid, c.oid>> \notin ended)
             => /\ ret.total_messages = 2
                /\ ret.user_messages = 1
                /\ ret.assistant_messages = 1
                /\ ret.is_active = TRUE

\* the stats of a Conversation of two user messages and one assistant message
C4_Witness ==
    /\ op.name = "get_conversation_stats"
    /\ ret.total_messages = 3
    /\ ret.user_messages = 2
    /\ ret.assistant_messages = 1
    /\ ret.is_active = TRUE

\* C5: end_conversation on a call_sid that is in the store returns true and leaves the
\* Conversation inactive, with end_time and duration in its metadata and its messages as
\* they were
C5_EndMarksConversation ==
    [][\A s \in CallSids :
         (op'.name = "end_conversation" /\ op'.call_sid = s /\ s \in Keys(conversations))
         => LET old == Lookup(conversations, s)
                new == Lookup(conversations', s)
            IN /\ ret' = TRUE
               /\ new.is_active = FALSE
               /\ {"end_time", "duration"} \subseteq DOMAIN new.metadata
               /\ new.metadata["end_time"].iso = now
               /\ new.metadata["duration"] = now - old.start_time
               /\ new.messages = old.messages
               /\ Keys(conversations') = Keys(conversations)]_vars

\* a Conversation holding a message was ended an hour or more after it started
C5_Witness ==
    /\ op.name = "end_conversation"
    /\ ret = TRUE
    /\ op.call_sid \in Keys(conversations)
    /\ ~Lookup(conversations, op.call_sid).is_active
    /\ Lookup(conversations, op.call_sid).messages # <<>>
    /\ Lookup(conversations, op.call_sid).metadata["duration"] > 0

\* C6: end_conversation on a call_sid that is not in the store returns false and leaves
\* the store as it was
C6_EndUnknownIsNoop ==
    [][\A s \in CallSids :
         (op'.name = "end_conversation" /\ op'.call_sid = s /\ s \notin Keys(conversations))
         => /\ ret' = FALSE
            /\ conversations' = conversations
            /\ last_cleanup' = last_cleanup
            /\ next_oid' = next_oid]_vars

\* an end of an unknown call_sid returned false while another Conversation was stored
C6_Witness ==
    /\ op.name = "end_conversation"
    /\ ret = FALSE
    /\ op.call_sid \notin Keys(conversations)
    /\ conversations # <<>>

\* C7 as stated: a call_sid whose Conversation was ended never has an active Conversation
\* stored under it again
C7_NeverActiveAgainUnderCallSid ==
    \A i \in 1..Len(conversations) :
        (\E e \in ended : e[1] = conversations[i].call_sid) => ~conversations[i].is_active

\* C7 amended: a Conversation that was ended is inactive for as long as it is stored; an
\* active Conversation stored under the call_sid of an ended one is another Conversation,
\* constructed after the clean-up pass removed the ended one
C7_EndedConversationStaysInactive ==
    \A i \in 1..Len(conversations) :
        /\ <<conversations[i].call_sid, conversations[i].oid>> \in ended => ~conversations[i].is_active
        /\ conversations[i].is_active =>
             \A e \in ended : e[1] = conversations[i].call_sid => e[2] < conversations[i].oid

\* a message was appended to an ended Conversation that is still stored
C7_Witness ==
    /\ op.name = "add_message"
    /\ \E i \in 1..Len(conversations) :
         /\ conversations[i].call_sid = op.call_sid
         /\ <<conversations[i].call_sid, conversations[i].oid>> \in ended
         /\ conversations[i].messages # <<>>

\* C8: an end_conversation on a Conversation that is already ended leaves it as it is
C8_SecondEndIsNoop ==
    [][\A s \in CallSids :
         (/\ op'.name = "end_conversation"
          /\ op'.call_sid = s
          /\ s \in Keys(conversations)
          /\ ~Lookup(conversations, s).is_active)
         => Lookup(conversations', s) = Lookup(conversations, s)]_vars

\* C9: when add_message has returned, message_count in the metadata of the Conversation
\* equals the number of its messages and last_activity is set
C9_MessageCountIsLength ==
    op.name = "add_message"
    => LET c == Lookup(conversations, op.call_sid)
       IN /\ ret = TRUE
          /\ {"message_count", "last_activity"} \subseteq DOMAIN c.metadata
          /\ c.metadata["message_count"] = Len(c.messages)
          /\ c.metadata["last_activity"].iso = now

\* a third message was appended
C9_Witness ==
    /\ op.name = "add_message"
    /\ Len(Lookup(conversations, op.call_sid).messages) = 3
    /\ Lookup(conversations, op.call_sid).metadata["message_count"] = 3

\* C10 as stated: right after a clean-up pass has executed the store holds at most
\* max_conversations Conversations
C10_AtMostMaxAfterPass ==
    cleaned.ran => Len(cleaned.convs) <= max_conversations

\* C10 amended: right after a clean-up pass has executed the store holds at most
\* max_conversations Conversations or only active ones
C10_AtMostMaxOrAllActiveAfterPass ==
    cleaned.ran
    => \/ Len(cleaned.convs) <= max_conversations
       \/ \A i \in 1..Len(cleaned.convs) : cleaned.convs[i].is_active

\* a pass brought the store down to max_conversations by removing the Conversation the call
\* was made for, which the call then constructed again
C10_Witness ==
    /\ cleaned.ran
    /\ Len(cleaned.convs) = max_conversations
    /\ op.name = "get_conversation"
    /\ op.call_sid \notin Keys(cleaned.convs)
    /\ now = 3600
    /\ Len(conversations) = max_conversations + 1

\* the identities of the Conversation objects of a dict
Oids(convs) == {convs[i].oid : i \in 1..Len(convs)}

\* the Conversations of a dict that the age sweep is to remove at time t: inactive and
\* started more than 24 hours before t
Aged(convs, t) == {i \in 1..Len(convs) : ~convs[i].is_active /\ t - convs[i].start_time > 24 * 3600}

\* the dict without the Conversations at the positions gone
Without(convs, gone) ==
    LET F[i \in 0..Len(convs)] ==
            IF i = 0 THEN <<>>
            ELSE IF i \in gone THEN F[i - 1] ELSE Append(F[i - 1], convs[i])
    IN F[Len(convs)]

\* C11: a Conversation leaves the store only in a step whose call executed the clean-up
\* pass, it is removed by that pass and it was inactive when the pass removed it, whatever
\* the number of Conversations stored
C11_OnlyInactiveAreRemoved ==
    [][\A i \in 1..Len(conversations) :
         conversations[i].oid \notin Oids(conversations')
         => /\ ~conversations[i].is_active
            /\ cleaned'.ran
            /\ cleaned'.before = conversations
            /\ conversations[i].oid \notin Oids(cleaned'.convs)]_vars

\* a pass over a store above max_conversations removed an inactive Conversation and kept
\* an active one that is older in the dict
C11_Witness ==
    /\ cleaned.ran
    /\ Len(cleaned.before) > max_conversations
    /\ \E i, j \in 1..Len(cleaned.before) :
         /\ i < j
         /\ cleaned.before[i].is_active
         /\ cleaned.before[i].oid \in Oids(cleaned.convs)
         /\ ~cleaned.before[j].is_active
         /\ cleaned.before[j].oid \notin Oids(cleaned.convs)

\* C12: when S > max_conversations Conversations are left by the age sweep, I of them
\* inactive, the capacity sweep removes min(I, S - max_conversations) of them, all inactive,
\* none started after an inactive Conversation it keeps, and it removes nothing else
C12_CapacitySweepRemovesOldestInactive ==
    cleaned.ran
    => LET aged == Without(cleaned.before, Aged(cleaned.before, now))
           S == Len(aged)
           inactive == {i \in 1..S : ~aged[i].is_active}
           I == Cardinality(inactive)
           over == S - max_conversations
           removed == {i \in 1..S : aged[i].oid \notin Oids(cleaned.convs)}
       IN S > max_conversations
          => /\ Cardinality(removed) = (IF I < over THEN I ELSE over)
             /\ removed \subseteq inactive
             /\ \A r \in removed, k \in inactive \ removed : aged[r].start_time <= aged[k].start_time
             /\ cleaned.convs = Without(aged, removed)

\* the capacity sweep removed the older of two inactive Conversations started an hour apart
C12_Witness ==
    /\ cleaned.ran
    /\ Len(cleaned.before) = max_conversations + 1
    /\ \E i, j \in 1..Len(cleaned.before) :
         /\ ~cleaned.before[i].is_active
         /\ ~cleaned.before[j].is_active
         /\ cleaned.before[i].start_time < cleaned.before[j].start_time
         /\ now - cleaned.before[i].start_time <= 24 * 3600
         /\ cleaned.before[i].oid \notin Oids(cleaned.convs)
         /\ cleaned.before[j].oid \in Oids(cleaned.convs)

\* C13: an executed pass removes every inactive Conversation started more than 24 hours
\* ago and keeps every active one; when no more than max_conversations are left it removes
\* nothing else, so that an inactive Conversation started 25 hours ago is removed and one
\* started 23 hours, or exactly 24 hours, ago is retained
C13_AgeSweepRemovesInactiveOlderThanADay ==
    cleaned.ran
    => LET before == cleaned.before
           aged == Aged(before, now)
       IN /\ \A i \in aged : before[i].oid \notin Oids(cleaned.convs)
          /\ \A i \in 1..Len(before) : before[i].is_active => before[i].oid \in Oids(cleaned.convs)
          /\ Len(before) - Cardinality(aged) <= max_conversations
             => /\ cleaned.convs = Without(before, aged)
                /\ \A i \in 1..Len(before) :
                     /\ (~before[i].is_active /\ now - before[i].start_time = 25 * 3600)
                        => before[i].oid \notin Oids(cleaned.convs)
                     /\ (~before[i].is_active /\ now - before[i].start_time \in {23 * 3600, 24 * 3600})
                        => before[i].oid \in Oids(cleaned.convs)

\* a pass removed an inactive Conversation started 25 hours before and holding a message
C13_Witness ==
    /\ cleaned.ran
    /\ \E i \in 1..Len(cleaned.before) :
         /\ ~cleaned.before[i].is_active
         /\ now - cleaned.before[i].start_time = 25 * 3600
         /\ cleaned.before[i].messages # <<>>
         /\ cleaned.before[i].oid \notin Oids(cleaned.convs)

\* C14: a call that looks a Conversation up executes the pass exactly when cleanup_interval
\* seconds or more have passed since last_cleanup, which is the time of construction until
\* a pass has executed; a call that does not execute it removes no Conversation and leaves
\* last_cleanup as it was, and one that executes it sets last_cleanup to the current time
C14_PassIsThrottled ==
    [][/\ op'.name \in {"get_conversation", "add_message", "get_history",
                        "get_conversation_stats", "export_conversation"}
          => (cleaned'.ran <=> now - last_cleanup >= cleanup_interval)
       /\ cleaned'.ran
          => /\ now - last_cleanup >= cleanup_interval
             /\ last_cleanup' = now
       /\ ~cleaned'.ran
          => /\ last_cleanup' = last_cleanup
             /\ Oids(conversations) \subseteq Oids(conversations')]_vars

\* a pass executed on a store holding an ended Conversation, removed nothing and recorded
\* its time
C14_Witness ==
    /\ cleaned.ran
    /\ cleaned.convs = cleaned.before
    /\ \E i \in 1..Len(cleaned.before) : ~cleaned.before[i].is_active
    /\ last_cleanup = now
    /\ now >= cleanup_interval

\* C15: in a store of max_conversations = 2 holding two inactive Conversations, a
\* get_conversation of a third call_sid made when a pass is due evicts an inactive
\* Conversation and not the one it constructs, so that the store holds at most 2
\* Conversations when the call returns
C15_InsertOfThirdEvictsInactive ==
    [][(/\ op'.name = "get_conversation"
        /\ max_conversations = 2
        /\ Len(conversations) = 2
        /\ \A i \in 1..Len(conversations) : ~conversations[i].is_active
        /\ op'.call_sid \notin Keys(conversations)
        /\ now - last_cleanup >= cleanup_interval)
       => /\ Len(conversations') <= 2
          /\ \E i \in 1..Len(conversations) : conversations[i].oid \notin Oids(conversations')
          /\ op'.call_sid \in Keys(conversations')
          /\ Lookup(conversations', op'.call_sid).is_active]_vars

\* C16: get_history leaves the set of stored Conversations, their fields and their messages
\* as they were, for a call_sid that is stored and for one that is not
C16_GetHistoryDoesNotMutate ==
    [][op'.name = "get_history" => conversations' = conversations]_vars

\* C17: for a call_sid that is not in the store get_history returns the empty list,
\* end_conversation returns false and get_conversation_stats returns the empty dictionary
C17_UnknownCallSidGivesDefault ==
    [][op'.call_sid \notin Keys(conversations)
       => /\ op'.name = "get_history" => ret' = <<>>
          /\ op'.name = "end_conversation" => ret' = FALSE
          /\ op'.name = "get_conversation_stats" => DOMAIN ret' = {}]_vars

\* C18: get_conversation_stats leaves the set of stored call_sids and the messages, the
\* is_active flag and the metadata of every stored Conversation as they were
C18_StatsIsReadOnly ==
    [][op'.name = "get_conversation_stats"
       => /\ Keys(conversations') = Keys(conversations)
          /\ \A s \in Keys(conversations) :
               /\ Lookup(conversations', s).messages = Lookup(conversations, s).messages
               /\ Lookup(conversations', s).is_active = Lookup(conversations, s).is_active
               /\ Lookup(conversations', s).metadata = Lookup(conversations, s).metadata]_vars

\* C19: get_all_conversations(limit) returns the stats of the first min(limit, size)
\* Conversations of the store sorted by start_time descending, equal start_times in dict
\* order, each as it was stored when the call was made
C19_ListIsNewestFirstAsStored ==
    [][(op'.name = "get_all_conversations" /\ op'.limit >= 0)
       => LET sorted == SortedByStart(conversations, TRUE)
              n == IF op'.limit < Len(sorted) THEN op'.limit ELSE Len(sorted)
          IN /\ Len(ret') = n
             /\ \A i \in 1..n : ret'[i] = Stats(sorted[i].call_sid, sorted[i], now)
             /\ \A i \in 1..(n - 1) : ret'[i].start_time.iso >= ret'[i + 1].start_time.iso]_vars

\* C20: search_conversations(query, limit) returns at most limit results when limit >= 0
C20_SearchReturnsAtMostLimit ==
    (op.name = "search_conversations" /\ op.limit >= 0) => Len(ret) <= op.limit

\* the stored Conversations holding a message whose content matches the query
Matching(convs, query) ==
    SelectSeq(convs, LAMBDA c : \E i \in 1..Len(c.messages) : MessageMatches(query, c.messages[i]))

\* C21: search_conversations(query, limit) with limit >= 1 returns, in dict order, one entry
\* for each of the first min(limit, M) of the M stored Conversations holding a matching
\* message: its call_sid, its numbers of messages and the content of its first matching
\* message
C21_SearchReturnsFirstMatching ==
    [][(op'.name = "search_conversations" /\ op'.limit >= 1)
       => LET matching == Matching(conversations, op'.content)
              M == Len(matching)
              n == IF op'.limit < M THEN op'.limit ELSE M
          IN /\ Len(ret') = n
             /\ \A i \in 1..n :
                  LET c == matching[i]
                      first == CHOOSE k \in 1..Len(c.messages) :
                                 /\ MessageMatches(op'.content, c.messages[k])
                                 /\ \A j \in 1..(k - 1) : ~MessageMatches(op'.content, c.messages[j])
                  IN /\ ret'[i].stats.call_sid = c.call_sid
                     /\ ret'[i].matching_message = c.messages[first].content
                     /\ ret'[i].stats.total_messages = Len(c.messages)
                     /\ ret'[i].stats.user_messages = CountRole(c.messages, "user")
                     /\ ret'[i].stats.assistant_messages = CountRole(c.messages, "assistant")]_vars

\* C24: get_conversation on a call_sid that is not stored inserts an active Conversation
\* without messages with the given numbers, "unknown" for an absent one; on a stored
\* call_sid it returns the stored Conversation with its numbers, start_time, messages and
\* is_active as they were, whatever the numbers given
C24_CreatesOrReturnsUnchanged ==
    [][op'.name = "get_conversation"
       => LET s == op'.call_sid
              new == Lookup(conversations', s)
          IN /\ s \in Keys(conversations')
             /\ ret' = new.oid
             /\ IF s \notin Keys(conversations)
                THEN /\ new.from_number = (IF op'.from_number \in {None, ""} THEN "unknown" ELSE op'.from_number)
                     /\ new.to_number = (IF op'.to_number \in {None, ""} THEN "unknown" ELSE op'.to_number)
                     /\ new.is_active
                     /\ new.messages = <<>>
                ELSE new = Lookup(conversations, s)]_vars

\* C25: after get_all_conversations and after search_conversations every stored call_sid
\* was stored before the call, with the same start_time, is_active flag and messages
C25_ListAndSearchLeaveStoreAlone ==
    [][op'.name \in {"get_all_conversations", "search_conversations"}
       => \A i \in 1..Len(conversations') :
            LET c == conversations'[i]
            IN /\ c.call_sid \in Keys(conversations)
               /\ c.start_time = Lookup(conversations, c.call_sid).start_time
               /\ c.is_active = Lookup(conversations, c.call_sid).is_active
               /\ c.messages = Lookup(conversations, c.call_sid).messages]_vars

\* C29: add_message returns true and leaves the Conversation it appended to with the
\* is_active flag and the start_time it had, one more message and message_count updated; an
\* ended Conversation is as inactive and as old after the append as before
C29_AppendKeepsActivity ==
    [][op'.name = "add_message"
       => LET new == Lookup(conversations', op'.call_sid)
          IN /\ ret' = TRUE
             /\ \A i \in 1..Len(conversations) :
                  conversations[i].oid = new.oid
                  => /\ new.is_active = conversations[i].is_active
                     /\ new.start_time = conversations[i].start_time
                     /\ Len(new.messages) = Len(conversations[i].messages) + 1
                     /\ SubSeq(new.messages, 1, Len(conversations[i].messages)) = conversations[i].messages
                     /\ new.messages[Len(new.messages)].role = op'.role
                     /\ new.messages[Len(new.messages)].content = op'.content
                     /\ new.metadata["message_count"] = Len(new.messages)
                     /\ Aged(<<new>>, now) = Aged(<<conversations[i]>>, now)]_vars

\* a message was appended to an ended Conversation in a call that executed the pass, and the
\* Conversation is inactive as before
C29_Witness ==
    /\ op.name = "add_message"
    /\ cleaned.ran
    /\ <<op.call_sid, Lookup(conversations, op.call_sid).oid>> \in ended
    /\ ~Lookup(conversations, op.call_sid).is_active
    /\ "end_time" \in DOMAIN Lookup(conversations, op.call_sid).metadata
    /\ Lookup(conversations, op.call_sid).metadata["message_count"] = 1

\* the number of the calls of a log made at time t or less than span seconds after it
CallsFrom(log, t, span) == Cardinality({j \in 1..Len(log) : log[j] >= t /\ log[j] - t < span})

\* C30: for every phone number the rate_limit_check calls that returned True within one
\* minute are at most calls_per_minute, within one hour at most calls_per_hour and within
\* one day at most calls_per_day, and call_history records no call that was denied
C30_AllowedCallsWithinLimits ==
    \A p \in DOMAIN allowed :
        /\ \A i \in 1..Len(allowed[p]) :
             /\ CallsFrom(allowed[p], allowed[p][i], 60) <= DictGet(rate_limits, "calls_per_minute", 10)
             /\ CallsFrom(allowed[p], allowed[p][i], 3600) <= DictGet(rate_limits, "calls_per_hour", 100)
             /\ CallsFrom(allowed[p], allowed[p][i], 86400) <= DictGet(rate_limits, "calls_per_day", 1000)
        /\ \A t \in {call_history[p][i] : i \in 1..Len(call_history[p])} :
             CallsFrom(call_history[p], t, 1) <= CallsFrom(allowed[p], t, 1)

\* C27: a webhook request with a CallSid and a non-empty SpeechResult leaves the
\* Conversation of the call with two more messages: the user's speech, then the
\* assistant's reply
C27_TurnAppendsUserThenAssistant ==
    [][(op'.name = "webhook" /\ op'.content # "")
       => LET s == op'.call_sid
              old == IF s \in Keys(conversations) THEN Lookup(conversations, s).messages ELSE <<>>
              new == Lookup(conversations', s).messages
          IN /\ s \in Keys(conversations')
             /\ Len(new) = Len(old) + 2
             /\ SubSeq(new, 1, Len(old)) = old
             /\ new[Len(old) + 1].role = "user"
             /\ new[Len(old) + 1].content = op'.content
             /\ new[Len(old) + 2].role = "assistant"]_vars

\* C28: while requests keep arriving and the clock keeps advancing, every Conversation
\* stored when the clock has not yet advanced is eventually inactive and is eventually
\* no longer stored
C28_ConversationsAreReclaimed ==
    \A s \in CallSids :
        /\ (s \in Keys(conversations) /\ ticks = 0)
             ~> (s \notin Keys(conversations) \/ ~Lookup(conversations, s).is_active)
        /\ (s \in Keys(conversations) /\ ticks = 0) ~> (s \notin Keys(conversations))

\* C22: when two threads have each appended a message to the same Conversation with
\* add_message and both calls have returned, the Conversation holds both messages and its
\* message_count is the number of its messages
C22_ConcurrentAppendsAreConsistent ==
    (/\ \A i \in Threads : threads[i].pc = "done" /\ threads[i].name = "add_message"
     /\ threads[1].conv = threads[2].conv)
    => LET c == Obj(threads[1].conv)
       IN /\ \A i \in Threads : \E k \in 1..Len(c.messages) : c.messages[k].content = threads[i].content
          /\ c.metadata["message_count"] = Len(c.messages)

\* C23: when two threads have called get_conversation or add_message for one call_sid that
\* was not stored when they entered, and both calls have returned, both hold the Conversation
\* stored under the call_sid, and it holds the message of every add_message that returned
\* true
C23_CreateIfAbsentIsAtomic ==
    (/\ \A i \in Threads : threads[i].pc = "done" /\ threads[i].absent
     /\ threads[1].call_sid = threads[2].call_sid)
    => LET s == threads[1].call_sid
       IN /\ s \in Keys(conversations)
          /\ \A i \in Threads :
               /\ threads[i].conv = Lookup(conversations, s).oid
               /\ (threads[i].name = "add_message" /\ threads[i].ret = TRUE)
                  => \E k \in 1..Len(Lookup(conversations, s).messages) :
                       Lookup(conversations, s).messages[k].content = threads[i].content

\* C26: no pass that has passed its throttle ends in the except branch: it is not
\* interrupted by a RuntimeError of the dict iterator nor by the KeyError of a second
\* deletion, and once past the pass the thread has recorded the time
C26_PassIsNotInterrupted ==
    \A i \in Threads :
        /\ threads[i].error = None
        /\ (threads[i].passed /\ threads[i].pc \in {"lookup", "construct", "insert", "append", "stamp", "count", "set_count", "done"})
           => threads[i].recorded

====
